---- MODULE Spec2Model ----
(***************************************************************************)
(* Model of the game session of src/src/game.c: construction and teardown  *)
(* through the lifetime ledger (lt), the Running/Pause/Quit state machine  *)
(* and the per-frame entry points game_input, game_event, game_update and  *)
(* game_render.                                                            *)
(*                                                                         *)
(* Every entry point is one action.  What a call does to its collaborators *)
(* (player, camera, renderer, level loader, ledger, error channel) is      *)
(* written, in program order, to `effects`, which holds the calls issued   *)
(* by the most recent entry point only; `released` is the whole session's  *)
(* record of release operations, in the order they fired.                  *)
(***************************************************************************)
EXTENDS Integers, Sequences, FiniteSets, TLC

\* ---------------------------------------------------------------- bounds
MaxReloads == 2     \* successful level reloads per session
MaxX == 2           \* player positions are 0..MaxX
MaxDelta == 2       \* delta_time is 1..MaxDelta

\* ------------------------------------------------------------- constants
NULL == 0

GAME_STATE_RUNNING == 0
GAME_STATE_PAUSE == 1
GAME_STATE_QUIT == 2

JUMP_BUTTON == 1

Paths == {"level1.txt", "level2.txt"}

\* SDL event types and key symbols the handlers distinguish, and one other
EventTypes == {"SDL_QUIT", "SDL_KEYDOWN", "SDL_JOYBUTTONDOWN", "SDL_KEYUP"}
KeySyms == {"SDLK_SPACE", "SDLK_q", "SDLK_p", "SDLK_a"}
Buttons == {0, 1}
Events == [type : EventTypes, sym : KeySyms, button : Buttons]
NoEvent == [type |-> "none", sym |-> "none", button |-> NULL]
NoInput == [key_a |-> FALSE, key_d |-> FALSE, axis |-> NULL]

\* the resources create_game registers, in program order, and the steps of
\* create_game that can fail
Registrations == <<"game", "player", "platforms", "camera", "level_file_path">>
CreateFail == {"none", "create_lt", "game", "player", "platforms", "camera",
               "level_file_path"}

\* the drawing steps of game_render that can fail, in program order
RenderFail == {"none", "SDL_SetRenderDrawColor", "SDL_RenderClear",
               "render_player", "render_platforms"}

VARIABLES
    phase,            \* "start", "live" (create_game returned a game),
                      \* "failed" (it returned NULL), "destroyed"
    game,             \* the game_t record create_game returned
    lt,               \* the ledger: sequence of frames [res, dtor]
    state,            \* game->state
    player,           \* game->player
    platforms,        \* game->platforms
    camera,           \* game->camera
    level_file_path,  \* game->level_file_path (the buffer)
    path_buf,         \* the string stored in that buffer
    path_arg,         \* the level_file_path argument of create_game
    nextH,            \* next fresh resource handle
    acquired,         \* frames [res, dtor] of every resource ever produced
    released,         \* frames released so far, in order
    player_st,        \* the player object: [x, dx, jump]
    camera_st,        \* the camera object: its position
    op,               \* the entry point called last
    last_event,       \* the event it was given (game_event)
    last_input,       \* the input snapshot it was given (game_input)
    ret,              \* its return value
    effects,          \* the calls it issued, in order
    lifecycle         \* how far the run has followed LifecycleScript

vars == <<phase, game, lt, state, player, platforms, camera, level_file_path, path_buf,
          path_arg, nextH, acquired, released, player_st, camera_st, op,
          last_event, last_input, ret, effects, lifecycle>>

gameVars == <<state, player, platforms, camera, level_file_path, path_buf>>
worldVars == <<player_st, camera_st>>
ledgerVars == <<lt, nextH, acquired, released>>

\* one collaborator call: function name, up to two handle arguments, a string
Eff(fn, h, g, p) == [fn |-> fn, h |-> h, g |-> g, p |-> p]

Frame(res, dtor) == [res |-> res, dtor |-> dtor]

RECURSIVE Reverse(_)
Reverse(s) == IF s = <<>> THEN <<>> ELSE Append(Reverse(Tail(s)), Head(s))

Range(s) == {s[i] : i \in 1..Len(s)}

Min(a, b) == IF a < b THEN a ELSE b
Max(a, b) == IF a > b THEN a ELSE b

\* ------------------------------------------------- the ledger (lt.h)
\* PUSH_LT(lt, resource, dtor): a NULL resource is not registered and NULL is
\* handed back; registration fails only if the ledger cannot grow, and then
\* the earlier frames are untouched.  Otherwise the frame is appended and the
\* resource is returned unchanged.
lt_push(frames, res, dtor, grow_ok) ==
    IF res = NULL \/ ~grow_ok
    THEN [lt |-> frames, res |-> NULL]
    ELSE [lt |-> Append(frames, Frame(res, dtor)), res |-> res]

\* index of the frame that holds res (0 if none)
lt_slot(frames, res) ==
    IF \E i \in 1..Len(frames) : frames[i].res = res
    THEN CHOOSE i \in 1..Len(frames) : frames[i].res = res
    ELSE 0

\* RESET_LT(lt, old, new): new = NULL is a producer that failed: the frame of
\* old is left as it is and the failure is signalled by NULL.  Otherwise old
\* is released through the release operation stored in its frame, then the
\* frame's resource becomes new (same release operation, same position).
\* (The game only ever passes a handle that is in the ledger; a handle that
\* is in no frame changes nothing.)
lt_reset(frames, old, new) ==
    LET i == lt_slot(frames, old) IN
    IF new = NULL \/ i = 0
    THEN [lt |-> frames, res |-> NULL, rel |-> <<>>, eff |-> <<>>]
    ELSE [lt  |-> [frames EXCEPT ![i].res = new],
          res |-> new,
          rel |-> <<frames[i]>>,
          eff |-> <<Eff(frames[i].dtor, old, NULL, ""),
                    Eff("lt_slot_set", new, NULL, "")>>]

\* release_all (RETURN_LT, RETURN_LT0): newest frame first, each release
\* operation once
destroy_lt(frames) ==
    [rel |-> Reverse(frames),
     eff |-> [i \in 1..Len(frames) |->
                 Eff(frames[Len(frames) + 1 - i].dtor,
                     frames[Len(frames) + 1 - i].res, NULL, "")]]

\* ------------------------------------- player and camera (player.h, camera.h)
\* create_player(100, 0), create_camera(vec(0, 0)): the objects as created
\* (the player starts away from the origin, the camera at the origin)
InitPlayer == [x |-> 1, dx |-> 0, jump |-> FALSE]
InitCamera == 0

player_move_left(p) == [p EXCEPT !.dx = -1]
player_move_right(p) == [p EXCEPT !.dx = 1]
player_stop(p) == [p EXCEPT !.dx = 0]
player_jump(p) == [p EXCEPT !.jump = TRUE]

\* update(handle, geometry, elapsed_time): the player advances by its
\* movement for the elapsed time, inside the level
update_player(p, dt) ==
    [x |-> Max(0, Min(MaxX, p.x + p.dx * dt)), dx |-> p.dx, jump |-> FALSE]

\* focus_camera(handle, camera): the camera is centred on the player
player_focus_camera(p, c) == p.x

\* ------------------------------------------------------------------ Init
Init ==
    /\ phase = "start"
    /\ game = NULL
    /\ lt = <<>>
    /\ state = GAME_STATE_RUNNING
    /\ player = NULL
    /\ platforms = NULL
    /\ camera = NULL
    /\ level_file_path = NULL
    /\ path_buf = ""
    /\ path_arg = ""
    /\ nextH = 1
    /\ acquired = <<>>
    /\ released = <<>>
    /\ player_st = InitPlayer
    /\ camera_st = InitCamera
    /\ op = "none"
    /\ last_event = NoEvent
    /\ last_input = NoInput
    /\ ret = 0
    /\ effects = <<>>
    /\ lifecycle = 0

\* -------------------------------------------------- the end-to-end run
\* The calls of the end-to-end run: a successful create_game, KeyDown(pause),
\* KeyDown(pause), WindowClose, game_render.
LifecycleScript == <<"create_game", "SDLK_p", "SDLK_p", "SDL_QUIT", "game_render">>

\* what the call just made was, in the words of LifecycleScript
CallMade ==
    IF op' = "game_event"
    THEN IF last_event'.type = "SDL_KEYDOWN" THEN last_event'.sym
         ELSE last_event'.type
    ELSE IF op' = "create_game" /\ phase' # "live" THEN "create_game failed"
    ELSE op'

\* lifecycle counts the calls of LifecycleScript the run has made so far, as
\* long as it has made no other call (is_game_over aside); after any other
\* call it is Len(LifecycleScript) + 1.
LifecycleStep ==
    lifecycle' =
        IF op' = "is_game_over" THEN lifecycle
        ELSE IF lifecycle < Len(LifecycleScript)
                /\ CallMade = LifecycleScript[lifecycle + 1]
        THEN lifecycle + 1
        ELSE Len(LifecycleScript) + 1

\* ----------------------------------------------------------- create_game
\* a failure path of create_game that returns NULL without RETURN_LT
create_game_fails_no_release(frames, acq, eff) ==
    /\ phase' = "failed"
    /\ lt' = frames
    /\ acquired' = acq
    /\ effects' = eff
    /\ ret' = NULL
    /\ nextH' = nextH + Len(Registrations)
    /\ UNCHANGED <<released, game, gameVars>>

\* RETURN_LT(lt, NULL) on a failure path of create_game: everything registered
\* so far is released and no game is returned.  frames: the ledger at that
\* point; acq: what the producers have handed out; eff: the calls made so far.
create_game_fails(frames, acq, eff) ==
    /\ phase' = "failed"
    /\ lt' = <<>>
    /\ released' = released \o destroy_lt(frames).rel
    /\ acquired' = acq
    /\ effects' = eff \o destroy_lt(frames).eff
    /\ ret' = NULL
    /\ nextH' = nextH + Len(Registrations)
    /\ UNCHANGED <<game, gameVars>>

\* One X = PUSH_LT(lt, producer(...), dtor) of create_game, run after the
\* registration `prev`.  h is the handle the producer hands out if it
\* succeeds; fail names the step of create_game that fails ("none": no step
\* does) and how tells whether its producer returns NULL or its registration
\* in the ledger fails.
create_game_push(prev, step, producer, dtor, h, arg, fail, how) ==
    LET r == IF fail = step /\ how = "producer" THEN NULL ELSE h
        p == lt_push(prev.lt, r, dtor, ~(fail = step /\ how = "ledger"))
    IN [step |-> step,
        lt   |-> p.lt,
        res  |-> p.res,
        acq  |-> IF r = NULL THEN prev.acq ELSE Append(prev.acq, Frame(r, dtor)),
        eff  |-> Append(prev.eff, Eff(producer, r, NULL, arg))]

\* create_game with the camera registered before the level geometry
create_game_steps_camera_first(level_path, fail, how) ==
    LET s0 == [step |-> "create_lt", lt |-> <<>>, res |-> NULL, acq |-> <<>>,
               eff |-> <<>>]
        s1 == create_game_push(s0, "game", "malloc", "free",
                               nextH, "", fail, how)
        s2 == create_game_push(s1, "player", "create_player", "destroy_player",
                               nextH + 1, "", fail, how)
        s3 == create_game_push(s2, "camera", "create_camera", "destroy_camera",
                               nextH + 2, "", fail, how)
        s4 == create_game_push(s3, "platforms", "load_platforms_from_file",
                               "destroy_platforms", nextH + 3, level_path, fail, how)
        s5 == create_game_push(s4, "level_file_path", "malloc", "free",
                               nextH + 4, "", fail, how)
    IN <<s1, s2, s3, s4, s5>>

\* the registrations of create_game, in program order
create_game_steps(level_path, fail, how) ==
    LET s0 == [step |-> "create_lt", lt |-> <<>>, res |-> NULL, acq |-> <<>>,
               eff |-> <<>>]
        s1 == create_game_push(s0, "game", "malloc", "free",
                               nextH, "", fail, how)
        s2 == create_game_push(s1, "player", "create_player", "destroy_player",
                               nextH + 1, "", fail, how)
        s3 == create_game_push(s2, "platforms", "load_platforms_from_file",
                               "destroy_platforms", nextH + 2, level_path, fail, how)
        s4 == create_game_push(s3, "camera", "create_camera", "destroy_camera",
                               nextH + 3, "", fail, how)
        s5 == create_game_push(s4, "level_file_path", "malloc", "free",
                               nextH + 4, "", fail, how)
    IN <<s1, s2, s3, s4, s5>>

\* the handle a step of create_game registered
StepRes(s, step) == s[CHOOSE i \in 1..Len(s) : s[i].step = step].res

create_game(level_path, fail, how) ==
    LET s == create_game_steps(level_path, fail, how)
        failed == {i \in 1..Len(s) : s[i].res = NULL}
        \* the first X == NULL check that fires
        k == CHOOSE i \in failed : \A j \in failed : i <= j
        throw == Eff("throw_error", NULL, NULL, "ERROR_TYPE_LIBC")
    IN
    /\ phase = "start"
    /\ op' = "create_game"
    /\ last_event' = NoEvent /\ last_input' = NoInput
    /\ path_arg' = level_path
    /\ IF fail = "create_lt"
       THEN \* lt == NULL: return NULL
            /\ phase' = "failed"
            /\ effects' = <<Eff("create_lt", NULL, NULL, "")>>
            /\ ret' = NULL
            /\ UNCHANGED <<game, gameVars, ledgerVars>>
       ELSE IF failed # {}
       THEN create_game_fails(s[k].lt, s[k].acq,
                IF s[k].step \in {"game", "level_file_path"}
                THEN Append(s[k].eff, throw) ELSE s[k].eff)
       ELSE /\ phase' = "live"
            /\ lt' = s[Len(s)].lt
            /\ game' = StepRes(s, "game")
            /\ player' = StepRes(s, "player")
            /\ platforms' = StepRes(s, "platforms")
            /\ camera' = StepRes(s, "camera")
            /\ level_file_path' = StepRes(s, "level_file_path")
            /\ path_buf' = level_path                \* strcpy
            /\ state' = GAME_STATE_RUNNING
            /\ acquired' = s[Len(s)].acq
            /\ nextH' = nextH + Len(Registrations)
            /\ effects' = Append(s[Len(s)].eff,
                                 Eff("strcpy", StepRes(s, "level_file_path"), NULL,
                                     level_path))
            /\ ret' = StepRes(s, "game")
            /\ UNCHANGED released
    /\ UNCHANGED worldVars

CreateGame ==
    \E level_path \in Paths, fail \in CreateFail, how \in {"producer", "ledger"} :
        /\ (fail \in {"none", "create_lt"} => how = "producer")
        /\ create_game(level_path, fail, how)
        /\ LifecycleStep

\* ---------------------------------------------------------- destroy_game
\* RETURN_LT0(game->lt)
destroy_game ==
    /\ phase = "live"
    /\ phase' = "destroyed"
    /\ op' = "destroy_game"
    /\ last_event' = NoEvent /\ last_input' = NoInput
    /\ ret' = 0
    /\ lt' = <<>>
    /\ released' = released \o destroy_lt(lt).rel
    /\ effects' = destroy_lt(lt).eff
    /\ UNCHANGED <<game, gameVars, worldVars, path_arg, nextH, acquired>>

DestroyGame == destroy_game /\ LifecycleStep

\* ----------------------------------------------------------- game_render
\* render_frame with the result of render_platforms ignored
render_frame_ignores_platforms_error(fail) ==
    LET res(fn)  == IF fail = fn THEN "failed" ELSE ""
        color    == Eff("SDL_SetRenderDrawColor", NULL, NULL,
                        res("SDL_SetRenderDrawColor"))
        clear    == Eff("SDL_RenderClear", NULL, NULL, res("SDL_RenderClear"))
        rplayer  == Eff("render_player", player, camera, res("render_player"))
        rplatf   == Eff("render_platforms", platforms, camera,
                        res("render_platforms"))
        present  == Eff("SDL_RenderPresent", NULL, NULL, "")
        throw    == Eff("throw_error", NULL, NULL, "ERROR_TYPE_SDL2")
    IN
    IF fail = "SDL_SetRenderDrawColor"
    THEN effects' = <<color, throw>> /\ ret' = -1
    ELSE IF fail = "SDL_RenderClear"
    THEN effects' = <<color, clear, throw>> /\ ret' = -1
    ELSE IF fail = "render_player"
    THEN effects' = <<color, clear, rplayer>> /\ ret' = -1
    ELSE effects' = <<color, clear, rplayer, rplatf, present>> /\ ret' = 0

\* render_frame with no error recorded when SDL_RenderClear fails
render_frame_silent_clear_error(fail) ==
    LET res(fn)  == IF fail = fn THEN "failed" ELSE ""
        color    == Eff("SDL_SetRenderDrawColor", NULL, NULL,
                        res("SDL_SetRenderDrawColor"))
        clear    == Eff("SDL_RenderClear", NULL, NULL, res("SDL_RenderClear"))
        rplayer  == Eff("render_player", player, camera, res("render_player"))
        rplatf   == Eff("render_platforms", platforms, camera,
                        res("render_platforms"))
        present  == Eff("SDL_RenderPresent", NULL, NULL, "")
        throw    == Eff("throw_error", NULL, NULL, "ERROR_TYPE_SDL2")
    IN
    IF fail = "SDL_SetRenderDrawColor"
    THEN effects' = <<color, throw>> /\ ret' = -1
    ELSE IF fail = "SDL_RenderClear"
    THEN effects' = <<color, clear>> /\ ret' = -1
    ELSE IF fail = "render_player"
    THEN effects' = <<color, clear, rplayer>> /\ ret' = -1
    ELSE IF fail = "render_platforms"
    THEN effects' = <<color, clear, rplayer, rplatf>> /\ ret' = -1
    ELSE effects' = <<color, clear, rplayer, rplatf, present>> /\ ret' = 0

\* The drawing of one frame.  fail names the drawing step that reports an
\* error ("none": no step does); the call that reports it is logged "failed".
render_frame(fail) ==
    LET res(fn)  == IF fail = fn THEN "failed" ELSE ""
        color    == Eff("SDL_SetRenderDrawColor", NULL, NULL,
                        res("SDL_SetRenderDrawColor"))
        clear    == Eff("SDL_RenderClear", NULL, NULL, res("SDL_RenderClear"))
        rplayer  == Eff("render_player", player, camera, res("render_player"))
        rplatf   == Eff("render_platforms", platforms, camera,
                        res("render_platforms"))
        present  == Eff("SDL_RenderPresent", NULL, NULL, "")
        throw    == Eff("throw_error", NULL, NULL, "ERROR_TYPE_SDL2")
    IN
    IF fail = "SDL_SetRenderDrawColor"
    THEN effects' = <<color, throw>> /\ ret' = -1
    ELSE IF fail = "SDL_RenderClear"
    THEN effects' = <<color, clear, throw>> /\ ret' = -1
    ELSE IF fail = "render_player"
    THEN effects' = <<color, clear, rplayer>> /\ ret' = -1
    ELSE IF fail = "render_platforms"
    THEN effects' = <<color, clear, rplayer, rplatf>> /\ ret' = -1
    ELSE effects' = <<color, clear, rplayer, rplatf, present>> /\ ret' = 0

\* game_render without the early return of GAME_STATE_QUIT
game_render_draws_after_quit(fail) ==
    /\ phase = "live"
    /\ op' = "game_render"
    /\ last_event' = NoEvent /\ last_input' = NoInput
    /\ render_frame(fail)
    /\ UNCHANGED <<phase, game, gameVars, worldVars, ledgerVars, path_arg>>

\* game_render that ends the game when a drawing step fails
game_render_quits_on_error(fail) ==
    /\ phase = "live"
    /\ op' = "game_render"
    /\ last_event' = NoEvent /\ last_input' = NoInput
    /\ IF state = GAME_STATE_QUIT
       THEN effects' = <<>> /\ ret' = 0
       ELSE render_frame(fail)
    /\ state' = IF state # GAME_STATE_QUIT /\ fail # "none"
                THEN GAME_STATE_QUIT ELSE state
    /\ UNCHANGED <<phase, game, player, platforms, camera, level_file_path,
                   path_buf, worldVars, ledgerVars, path_arg>>

game_render(fail) ==
    /\ phase = "live"
    /\ op' = "game_render"
    /\ last_event' = NoEvent /\ last_input' = NoInput
    /\ IF state = GAME_STATE_QUIT
       THEN effects' = <<>> /\ ret' = 0
       ELSE render_frame(fail)
    /\ UNCHANGED <<phase, game, gameVars, worldVars, ledgerVars, path_arg>>

GameRender == \E fail \in RenderFail : game_render(fail) /\ LifecycleStep

\* ----------------------------------------------------------- game_update
\* game_update that simulates in every state but GAME_STATE_QUIT
game_update_ignores_pause(delta_time) ==
    /\ phase = "live"
    /\ delta_time > 0
    /\ op' = "game_update"
    /\ last_event' = NoEvent /\ last_input' = NoInput
    /\ ret' = 0
    /\ IF state = GAME_STATE_QUIT
       THEN effects' = <<>> /\ UNCHANGED worldVars
       ELSE /\ player_st' = update_player(player_st, delta_time)
            /\ camera_st' = player_focus_camera(player_st', camera_st)
            /\ effects' = <<Eff("update_player", player, platforms, ""),
                            Eff("player_focus_camera", player, camera, "")>>
    /\ UNCHANGED <<phase, game, gameVars, ledgerVars, path_arg>>

game_update(delta_time) ==
    /\ phase = "live"
    /\ delta_time > 0                                \* assert(delta_time > 0)
    /\ op' = "game_update"
    /\ last_event' = NoEvent /\ last_input' = NoInput
    /\ ret' = 0
    /\ IF state = GAME_STATE_QUIT
       THEN effects' = <<>> /\ UNCHANGED worldVars
       ELSE IF state = GAME_STATE_RUNNING
       THEN /\ player_st' = update_player(player_st, delta_time)
            /\ camera_st' = player_focus_camera(player_st', camera_st)
            /\ effects' = <<Eff("update_player", player, platforms, ""),
                            Eff("player_focus_camera", player, camera, "")>>
       ELSE effects' = <<>> /\ UNCHANGED worldVars
    /\ UNCHANGED <<phase, game, gameVars, ledgerVars, path_arg>>

GameUpdate ==
    \E delta_time \in 1..MaxDelta : game_update(delta_time) /\ LifecycleStep

\* ------------------------------------------------------------ game_event
\* the handler of Pause without the p key
game_event_pause_no_resume(event) ==
    /\ IF event.type = "SDL_QUIT"
       THEN state' = GAME_STATE_QUIT
       ELSE UNCHANGED state
    /\ effects' = <<>>
    /\ ret' = 0
    /\ UNCHANGED <<player, platforms, camera, level_file_path, path_buf,
                   worldVars, ledgerVars>>

\* the handler of Pause without the SDL_QUIT case
game_event_pause_ignores_quit(event) ==
    /\ IF event.type = "SDL_KEYDOWN" /\ event.sym = "SDLK_p"
       THEN state' = GAME_STATE_RUNNING
       ELSE UNCHANGED state
    /\ effects' = <<>>
    /\ ret' = 0
    /\ UNCHANGED <<player, platforms, camera, level_file_path, path_buf,
                   worldVars, ledgerVars>>

\* the handler of Pause with the space key of the handler of Running
game_event_pause_jumps(event) ==
    /\ IF event.type = "SDL_QUIT"
       THEN state' = GAME_STATE_QUIT
       ELSE IF event.type = "SDL_KEYDOWN" /\ event.sym = "SDLK_p"
       THEN state' = GAME_STATE_RUNNING
       ELSE UNCHANGED state
    /\ IF event.type = "SDL_KEYDOWN" /\ event.sym = "SDLK_SPACE"
       THEN /\ player_st' = player_jump(player_st)
            /\ effects' = <<Eff("player_jump", player, NULL, "")>>
       ELSE /\ UNCHANGED player_st
            /\ effects' = <<>>
    /\ ret' = 0
    /\ UNCHANGED <<player, platforms, camera, level_file_path, path_buf,
                   camera_st, ledgerVars>>

game_event_pause(event) ==
    /\ IF event.type = "SDL_QUIT"
       THEN state' = GAME_STATE_QUIT
       ELSE IF event.type = "SDL_KEYDOWN" /\ event.sym = "SDLK_p"
       THEN state' = GAME_STATE_RUNNING
       ELSE UNCHANGED state
    /\ effects' = <<>>
    /\ ret' = 0
    /\ UNCHANGED <<player, platforms, camera, level_file_path, path_buf,
                   worldVars, ledgerVars>>

\* the q key with a failed load that is reported but does not end the game
game_reload_stays_running(loaded) ==
    LET r == lt_reset(lt, platforms, loaded) IN
    /\ lt' = r.lt
    /\ released' = released \o r.rel
    /\ acquired' = IF loaded = NULL THEN acquired
                   ELSE Append(acquired, Frame(loaded, "destroy_platforms"))
    /\ nextH' = IF loaded = NULL THEN nextH ELSE nextH + 1
    /\ platforms' = r.res
    /\ ret' = IF r.res = NULL THEN -1 ELSE 0
    /\ effects' = <<Eff("printf", NULL, NULL, path_buf),
                    Eff("load_platforms_from_file", loaded, NULL, path_buf)>>
                  \o r.eff \o <<Eff("game->platforms", r.res, NULL, "")>>
    /\ UNCHANGED <<state, player, camera, level_file_path, path_buf, worldVars>>

\* the q key with a failure path that also releases the old geometry by hand
game_reload_releases_on_failure(loaded) ==
    LET r == lt_reset(lt, platforms, loaded)
        byhand == IF r.res = NULL THEN <<Frame(platforms, "destroy_platforms")>>
                  ELSE <<>>
    IN
    /\ lt' = r.lt
    /\ released' = released \o r.rel \o byhand
    /\ acquired' = IF loaded = NULL THEN acquired
                   ELSE Append(acquired, Frame(loaded, "destroy_platforms"))
    /\ nextH' = IF loaded = NULL THEN nextH ELSE nextH + 1
    /\ platforms' = r.res
    /\ state' = IF r.res = NULL THEN GAME_STATE_QUIT ELSE state
    /\ ret' = IF r.res = NULL THEN -1 ELSE 0
    /\ effects' = <<Eff("printf", NULL, NULL, path_buf),
                    Eff("load_platforms_from_file", loaded, NULL, path_buf)>>
                  \o r.eff \o <<Eff("game->platforms", r.res, NULL, "")>>
                  \o [i \in 1..Len(byhand) |->
                         Eff("destroy_platforms", platforms, NULL, "")]
    /\ UNCHANGED <<player, camera, level_file_path, path_buf, worldVars>>

\* the q key with the loaded handle stored in the game before the ledger
\* has replaced the old one
game_reload_assigns_first(loaded) ==
    LET r == lt_reset(lt, platforms, loaded) IN
    /\ lt' = r.lt
    /\ released' = released \o r.rel
    /\ acquired' = IF loaded = NULL THEN acquired
                   ELSE Append(acquired, Frame(loaded, "destroy_platforms"))
    /\ nextH' = IF loaded = NULL THEN nextH ELSE nextH + 1
    /\ platforms' = loaded
    /\ state' = IF loaded = NULL THEN GAME_STATE_QUIT ELSE state
    /\ ret' = IF loaded = NULL THEN -1 ELSE 0
    /\ effects' = <<Eff("printf", NULL, NULL, path_buf),
                    Eff("load_platforms_from_file", loaded, NULL, path_buf),
                    Eff("game->platforms", loaded, NULL, "")>>
                  \o r.eff
    /\ UNCHANGED <<player, camera, level_file_path, path_buf, worldVars>>

\* the q key with the loaded geometry stored in the game without the ledger
game_reload_bypasses_ledger(loaded) ==
    /\ acquired' = IF loaded = NULL THEN acquired
                   ELSE Append(acquired, Frame(loaded, "destroy_platforms"))
    /\ nextH' = IF loaded = NULL THEN nextH ELSE nextH + 1
    /\ platforms' = loaded
    /\ state' = IF loaded = NULL THEN GAME_STATE_QUIT ELSE state
    /\ ret' = IF loaded = NULL THEN -1 ELSE 0
    /\ effects' = <<Eff("printf", NULL, NULL, path_buf),
                    Eff("load_platforms_from_file", loaded, NULL, path_buf),
                    Eff("game->platforms", loaded, NULL, "")>>
    /\ UNCHANGED <<lt, released, player, camera, level_file_path, path_buf,
                   worldVars>>

\* the q key with the loaded geometry registered as one more frame
game_reload_pushes(loaded) ==
    LET r == lt_push(lt, loaded, "destroy_platforms", TRUE) IN
    /\ lt' = r.lt
    /\ acquired' = IF loaded = NULL THEN acquired
                   ELSE Append(acquired, Frame(loaded, "destroy_platforms"))
    /\ nextH' = IF loaded = NULL THEN nextH ELSE nextH + 1
    /\ platforms' = r.res
    /\ state' = IF r.res = NULL THEN GAME_STATE_QUIT ELSE state
    /\ ret' = IF r.res = NULL THEN -1 ELSE 0
    /\ effects' = <<Eff("printf", NULL, NULL, path_buf),
                    Eff("load_platforms_from_file", loaded, NULL, path_buf),
                    Eff("game->platforms", r.res, NULL, "")>>
    /\ UNCHANGED <<released, player, camera, level_file_path, path_buf, worldVars>>

\* The q key.  loaded is what load_platforms_from_file(game->level_file_path)
\* returns: a fresh handle, or NULL.
game_reload(loaded) ==
    LET r == lt_reset(lt, platforms, loaded) IN
    /\ lt' = r.lt
    /\ released' = released \o r.rel
    /\ acquired' = IF loaded = NULL THEN acquired
                   ELSE Append(acquired, Frame(loaded, "destroy_platforms"))
    /\ nextH' = IF loaded = NULL THEN nextH ELSE nextH + 1
    /\ platforms' = r.res
    /\ IF r.res = NULL
       THEN /\ state' = GAME_STATE_QUIT
            /\ ret' = -1
            /\ effects' = <<Eff("printf", NULL, NULL, path_buf),
                            Eff("load_platforms_from_file", loaded, NULL, path_buf)>>
                          \o r.eff
                          \o <<Eff("game->platforms", r.res, NULL, ""),
                               Eff("print_current_error_msg", NULL, NULL, "")>>
       ELSE /\ ret' = 0
            /\ effects' = <<Eff("printf", NULL, NULL, path_buf),
                            Eff("load_platforms_from_file", loaded, NULL, path_buf)>>
                          \o r.eff
                          \o <<Eff("game->platforms", r.res, NULL, "")>>
            /\ UNCHANGED state
    /\ UNCHANGED <<player, camera, level_file_path, path_buf, worldVars>>

\* the handler of Running with a jump on every controller button
game_event_running_any_button(event, loaded) ==
    IF event.type = "SDL_KEYDOWN" /\ event.sym = "SDLK_q"
    THEN game_reload(loaded)
    ELSE /\ IF event.type = "SDL_QUIT"
            THEN state' = GAME_STATE_QUIT
            ELSE IF event.type = "SDL_KEYDOWN" /\ event.sym = "SDLK_p"
            THEN state' = GAME_STATE_PAUSE
            ELSE UNCHANGED state
         /\ IF \/ event.type = "SDL_KEYDOWN" /\ event.sym = "SDLK_SPACE"
               \/ event.type = "SDL_JOYBUTTONDOWN"
            THEN /\ player_st' = player_jump(player_st)
                 /\ effects' = <<Eff("player_jump", player, NULL, "")>>
            ELSE /\ UNCHANGED player_st
                 /\ effects' = <<>>
         /\ ret' = 0
         /\ UNCHANGED <<player, platforms, camera, level_file_path, path_buf,
                        camera_st, ledgerVars>>

game_event_running(event, loaded) ==
    IF event.type = "SDL_KEYDOWN" /\ event.sym = "SDLK_q"
    THEN game_reload(loaded)
    ELSE /\ IF event.type = "SDL_QUIT"
            THEN state' = GAME_STATE_QUIT
            ELSE IF event.type = "SDL_KEYDOWN" /\ event.sym = "SDLK_p"
            THEN state' = GAME_STATE_PAUSE
            ELSE UNCHANGED state
         /\ IF \/ event.type = "SDL_KEYDOWN" /\ event.sym = "SDLK_SPACE"
               \/ event.type = "SDL_JOYBUTTONDOWN" /\ event.button = JUMP_BUTTON
            THEN /\ player_st' = player_jump(player_st)
                 /\ effects' = <<Eff("player_jump", player, NULL, "")>>
            ELSE /\ UNCHANGED player_st
                 /\ effects' = <<>>
         /\ ret' = 0
         /\ UNCHANGED <<player, platforms, camera, level_file_path, path_buf,
                        camera_st, ledgerVars>>

\* game_event with the handlers of Running and Pause, and an error for
\* events that arrive after GAME_STATE_QUIT
game_event_rejects_after_quit(event, loaded) ==
    /\ phase = "live"
    /\ op' = "game_event"
    /\ last_event' = event /\ last_input' = NoInput
    /\ IF state = GAME_STATE_RUNNING
       THEN game_event_running(event, loaded)
       ELSE IF state = GAME_STATE_PAUSE
       THEN game_event_pause(event)
       ELSE /\ ret' = -1
            /\ effects' = <<>>
            /\ UNCHANGED <<gameVars, worldVars, ledgerVars>>
    /\ UNCHANGED <<phase, game, path_arg>>

game_event(event, loaded) ==
    /\ phase = "live"
    /\ op' = "game_event"
    /\ last_event' = event /\ last_input' = NoInput
    /\ IF state = GAME_STATE_RUNNING
       THEN game_event_running(event, loaded)
       ELSE IF state = GAME_STATE_PAUSE
       THEN game_event_pause(event)
       ELSE /\ ret' = 0
            /\ effects' = <<>>
            /\ UNCHANGED <<gameVars, worldVars, ledgerVars>>
    /\ UNCHANGED <<phase, game, path_arg>>

\* number of successful reloads so far
Reloads == Len(acquired) - Len(lt)

IsReload(event) ==
    state = GAME_STATE_RUNNING /\ event.type = "SDL_KEYDOWN" /\ event.sym = "SDLK_q"

GameEvent ==
    \E event \in Events, load_ok \in BOOLEAN :
        /\ IsReload(event) => Reloads < MaxReloads
        /\ game_event(event, IF load_ok THEN nextH ELSE NULL)
        /\ LifecycleStep

\* ------------------------------------------------------------ game_input
\* game_input that looks at the right key before the left key
game_input_right_first(key_a, key_d, axis) ==
    /\ phase = "live"
    /\ op' = "game_input"
    /\ last_event' = NoEvent
    /\ last_input' = [key_a |-> key_a, key_d |-> key_d, axis |-> axis]
    /\ ret' = 0
    /\ IF state = GAME_STATE_QUIT \/ state = GAME_STATE_PAUSE
       THEN effects' = <<>> /\ UNCHANGED player_st
       ELSE IF key_d
       THEN /\ player_st' = player_move_right(player_st)
            /\ effects' = <<Eff("player_move_right", player, NULL, "")>>
       ELSE IF key_a \/ axis < 0
       THEN /\ player_st' = player_move_left(player_st)
            /\ effects' = <<Eff("player_move_left", player, NULL, "")>>
       ELSE IF axis > 0
       THEN /\ player_st' = player_move_right(player_st)
            /\ effects' = <<Eff("player_move_right", player, NULL, "")>>
       ELSE /\ player_st' = player_stop(player_st)
            /\ effects' = <<Eff("player_stop", player, NULL, "")>>
    /\ UNCHANGED <<phase, game, gameVars, camera_st, ledgerVars, path_arg>>

\* key_a, key_d: keyboard_state[SDL_SCANCODE_A], [SDL_SCANCODE_D];
\* axis: SDL_JoystickGetAxis(the_stick_of_joy, 0)
game_input(key_a, key_d, axis) ==
    /\ phase = "live"
    /\ op' = "game_input"
    /\ last_event' = NoEvent
    /\ last_input' = [key_a |-> key_a, key_d |-> key_d, axis |-> axis]
    /\ ret' = 0
    /\ IF state = GAME_STATE_QUIT \/ state = GAME_STATE_PAUSE
       THEN effects' = <<>> /\ UNCHANGED player_st
       ELSE IF key_a
       THEN /\ player_st' = player_move_left(player_st)
            /\ effects' = <<Eff("player_move_left", player, NULL, "")>>
       ELSE IF key_d
       THEN /\ player_st' = player_move_right(player_st)
            /\ effects' = <<Eff("player_move_right", player, NULL, "")>>
       ELSE IF axis < 0
       THEN /\ player_st' = player_move_left(player_st)
            /\ effects' = <<Eff("player_move_left", player, NULL, "")>>
       ELSE IF axis > 0
       THEN /\ player_st' = player_move_right(player_st)
            /\ effects' = <<Eff("player_move_right", player, NULL, "")>>
       ELSE /\ player_st' = player_stop(player_st)
            /\ effects' = <<Eff("player_stop", player, NULL, "")>>
    /\ UNCHANGED <<phase, game, gameVars, camera_st, ledgerVars, path_arg>>

GameInput ==
    \E key_a \in BOOLEAN, key_d \in BOOLEAN, axis \in {-1, 0, 1} :
        game_input(key_a, key_d, axis) /\ LifecycleStep

\* ---------------------------------------------------------- is_game_over
\* game->state == GAME_STATE_QUIT
game_over == state = GAME_STATE_QUIT

is_game_over ==
    /\ phase = "live"
    /\ op' = "is_game_over"
    /\ last_event' = NoEvent /\ last_input' = NoInput
    /\ ret' = IF game_over THEN 1 ELSE 0
    /\ effects' = <<>>
    /\ UNCHANGED <<phase, game, gameVars, worldVars, ledgerVars, path_arg>>

IsGameOver == is_game_over /\ LifecycleStep

\* ------------------------------------------------------------------ Next
Next ==
    \/ CreateGame
    \/ GameInput
    \/ GameEvent
    \/ GameUpdate
    \/ GameRender
    \/ IsGameOver
    \/ DestroyGame

Spec == Init /\ [][Next]_vars

\* =================================================================
\* Properties
\* =================================================================
Names(eff) == {eff[i].fn : i \in 1..Len(eff)}

MoveCommands == {"player_move_left", "player_move_right", "player_stop"}
PlayerCommands == MoveCommands \cup {"player_jump"}
DrawCalls == {"SDL_SetRenderDrawColor", "SDL_RenderClear", "render_player",
              "render_platforms", "SDL_RenderPresent"}
ReleaseCalls == {"free", "destroy_player", "destroy_platforms", "destroy_camera"}

\* the step is one of game_input, game_event, game_update, game_render
FrameCall ==
    /\ phase = "live"
    /\ op' \in {"game_input", "game_event", "game_update", "game_render"}

\* the step is a game_event call that handles KeyDown(reload) in Running
ReloadCall ==
    /\ FrameCall
    /\ op' = "game_event"
    /\ state = GAME_STATE_RUNNING
    /\ last_event'.type = "SDL_KEYDOWN"
    /\ last_event'.sym = "SDLK_q"

\* what the level loader returned in the call just made
Loaded(eff) ==
    eff[CHOOSE i \in 1..Len(eff) : eff[i].fn = "load_platforms_from_file"].h

\* positions in eff of the calls named fn with first argument h
Calls(eff, fn, h) == {i \in 1..Len(eff) : eff[i].fn = fn /\ eff[i].h = h}

\* C1: Terminated is absorbing.  A game_input, game_event, game_update or
\* game_render call made in GAME_STATE_QUIT leaves the state GAME_STATE_QUIT,
\* issues no player command, loads no level, releases nothing, and game_render
\* returns 0 without a draw or present call.
C1_TerminatedAbsorbing ==
    [][(FrameCall /\ state = GAME_STATE_QUIT) =>
          /\ state' = GAME_STATE_QUIT
          /\ Names(effects') \cap (PlayerCommands \cup DrawCalls
                                   \cup {"load_platforms_from_file"}) = {}
          /\ UNCHANGED <<platforms, lt, released, acquired>>
          /\ (op' = "game_render" => ret' = 0 /\ effects' = <<>>)
          /\ ret' = 0]_vars

\* a render call was made in GAME_STATE_QUIT (render does not change the state)
C1_Witness ==
    phase = "live" /\ state = GAME_STATE_QUIT /\ op = "game_render" /\ ret = 0

\* C2 (as stated): after a successful create_game and until destroy_game, the
\* player, level geometry, camera and level-path handles of the game are all
\* non-null.
C2_AllHandlesNonNull ==
    phase = "live" =>
        /\ player # NULL
        /\ platforms # NULL
        /\ camera # NULL
        /\ level_file_path # NULL

\* C2 (amended): the player, camera and level-path handles are non-null; the
\* geometry handle is non-null while the state is Running or Pause, and it is
\* NULL once a reload has failed (the state is then GAME_STATE_QUIT).
C2_HandlesNonNullUnlessReloadFailed ==
    phase = "live" =>
        /\ player # NULL
        /\ camera # NULL
        /\ level_file_path # NULL
        /\ (state # GAME_STATE_QUIT => platforms # NULL)
        /\ ((op = "game_event" /\ ret = -1) => platforms = NULL)

C2_Witness ==
    phase = "live" /\ state = GAME_STATE_QUIT /\ platforms = NULL /\ player # NULL

\* C3: reload atomicity.  When KeyDown(reload) is handled in Running and the
\* level loader fails, the ledger frame of the level geometry still holds the
\* old handle, no release operation has fired for it or for any other frame,
\* and the ledger is as it was.
C3_ReloadAtomicity ==
    [][(ReloadCall /\ Loaded(effects') = NULL) =>
          /\ lt_slot(lt, platforms) # 0
          /\ lt' = lt
          /\ lt'[lt_slot(lt, platforms)] = Frame(platforms, "destroy_platforms")
          /\ released' = released
          /\ Names(effects') \cap ReleaseCalls = {}]_vars

\* a reload has just failed and the old geometry is still in the ledger,
\* unreleased
C3_Witness ==
    /\ phase = "live" /\ op = "game_event" /\ ret = -1
    /\ \E i \in 1..Len(lt) :
          lt[i].dtor = "destroy_platforms" /\ lt[i] \notin Range(released)

\* C4: reload success.  When KeyDown(reload) is handled in Running and the
\* level loader succeeds, the release operation of the old geometry handle
\* fires exactly once, before the ledger frame and game->platforms are given
\* the new handle; afterwards both hold the newly loaded handle.
C4_ReloadSuccess ==
    [][(ReloadCall /\ Loaded(effects') # NULL) =>
          LET old == platforms
              new == Loaded(effects')
              rel == Calls(effects', "destroy_platforms", old)
              vis == Calls(effects', "lt_slot_set", new)
                     \cup Calls(effects', "game->platforms", new)
          IN /\ Cardinality(rel) = 1
             /\ released' = Append(released, Frame(old, "destroy_platforms"))
             /\ Calls(effects', "lt_slot_set", new) # {}
             /\ Calls(effects', "game->platforms", new) # {}
             /\ \A i \in rel, j \in vis : i < j
             /\ new # old
             /\ platforms' = new
             /\ lt_slot(lt, old) # 0
             /\ lt' = [lt EXCEPT ![lt_slot(lt, old)].res = new]
             /\ ret' = 0]_vars

\* a reload has just succeeded
C4_Witness ==
    /\ phase = "live" /\ op = "game_event" /\ ret = 0
    /\ last_event.type = "SDL_KEYDOWN" /\ last_event.sym = "SDLK_q"
    /\ state = GAME_STATE_RUNNING
    /\ released # <<>>

\* C5: no leak and no double release.  From a successful create_game on, no
\* resource is released twice and nothing is released that was not acquired;
\* once destroy_game has returned, every resource acquired (the game record,
\* the player, every geometry a load returned, the camera, the path buffer)
\* has been released exactly once.
C5_ReleasedExactlyOnce ==
    phase \in {"live", "destroyed"} =>
        /\ \A i, j \in 1..Len(released) : released[i].res = released[j].res => i = j
        /\ Range(released) \subseteq Range(acquired)
        /\ (phase = "destroyed" =>
               /\ Range(released) = Range(acquired)
               /\ Len(released) = Len(acquired))

\* a session that reloaded successfully, then failed a reload, then was destroyed
C5_Witness ==
    /\ phase = "destroyed"
    /\ platforms = NULL
    /\ Len(acquired) > Len(Registrations)

\* the place of the level geometry in the registration order
GeometrySlot == CHOOSE i \in 1..Len(Registrations) : Registrations[i] = "platforms"

\* the geometry the ledger holds at teardown: the one loaded last
LastGeometry ==
    IF Len(acquired) > Len(Registrations)
    THEN acquired[Len(acquired)].res
    ELSE acquired[GeometrySlot].res

\* C6: teardown order.  destroy_game releases the level-path buffer, then the
\* camera, then the level geometry, then the player, then the game record:
\* the reverse of the order in which create_game registered them, whatever
\* the number of reloads, the geometry frame keeping its place.
C6_TeardownOrder ==
    phase = "destroyed" =>
        /\ effects = <<Eff("free", level_file_path, NULL, ""),
                       Eff("destroy_camera", camera, NULL, ""),
                       Eff("destroy_platforms", LastGeometry, NULL, ""),
                       Eff("destroy_player", player, NULL, ""),
                       Eff("free", game, NULL, "")>>
        /\ LET reg == SubSeq(acquired, 1, Len(Registrations))
               tail == SubSeq(released, Len(released) - Len(reg) + 1, Len(released))
           IN /\ [i \in 1..Len(reg) |-> reg[i].dtor] =
                    [i \in 1..Len(reg) |-> tail[Len(reg) + 1 - i].dtor]
              /\ \A i \in 1..Len(reg) :
                    i # GeometrySlot => reg[i] = tail[Len(reg) + 1 - i]
              /\ tail[GeometrySlot] = Frame(LastGeometry, "destroy_platforms")

\* a session destroyed after two successful reloads
C6_Witness ==
    phase = "destroyed" /\ Len(acquired) = Len(Registrations) + 2

\* the producers create_game called, in order
ProducerCalls(eff) ==
    SelectSeq(eff, LAMBDA e : e.fn \in {"malloc", "create_player",
                                        "load_platforms_from_file", "create_camera"})

\* C7: partial-construction safety.  When a step of create_game fails, the
\* resources registered before that step are released exactly once each, in
\* reverse registration order, nothing of a later step has been produced, the
\* ledger is empty and create_game returns NULL; a failing level load releases
\* the player (and then the game record) exactly once.
C7_PartialConstruction ==
    phase = "failed" =>
        LET k == Len(ProducerCalls(effects))      \* the failing step, 0: create_lt
            before == SubSeq(acquired, 1, k - 1)
        IN /\ ret = NULL
           /\ game = NULL
           /\ lt = <<>>
           /\ Len(acquired) \in {Max(k - 1, 0), k}
           /\ released = Reverse(before)
           /\ [i \in 1..Len(before) |-> before[i].dtor] =
                 SubSeq(<<"free", "destroy_player", "destroy_platforms",
                          "destroy_camera", "free">>, 1, k - 1)
           /\ (\E i \in 1..Len(effects) :
                   effects[i].fn = "load_platforms_from_file" /\ effects[i].h = NULL)
               => /\ Len(released) = 2
                  /\ released[1].dtor = "destroy_player"
                  /\ released[2].dtor = "free"
                  /\ released[1].res # released[2].res

\* create_game failed at the level load and released the player
C7_Witness ==
    /\ phase = "failed"
    /\ \E i \in 1..Len(effects) :
          effects[i].fn = "load_platforms_from_file" /\ effects[i].h = NULL
    /\ Len(released) = 2

\* C8: game_event returns an error exactly when it handled KeyDown(reload) in
\* Running and the level load failed, and then the state is GAME_STATE_QUIT
\* when it returns; every other state and event gives 0.
C8_EventErrorIffReloadFails ==
    [][(FrameCall /\ op' = "game_event") =>
          /\ ret' \in {0, -1}
          /\ (ret' = -1 <=> (ReloadCall /\ Loaded(effects') = NULL))
          /\ (ret' = -1 => state' = GAME_STATE_QUIT)]_vars

\* game_event has just returned the error of a failed reload
C8_Witness ==
    /\ phase = "live" /\ op = "game_event" /\ ret = -1
    /\ last_event = [type |-> "SDL_KEYDOWN", sym |-> "SDLK_q", button |-> 0]
    /\ state = GAME_STATE_QUIT

\* C9: in Running every game_input call issues exactly one movement command:
\* move-left if the left key is down; else move-right if the right key is
\* down; else move-left on a negative axis; else move-right on a positive
\* axis; else stop.  In Pause and Quit it issues nothing.
C9_InputPrecedence ==
    [][(FrameCall /\ op' = "game_input") =>
          LET in == last_input'
              cmd == effects'[1].fn
          IN IF state = GAME_STATE_RUNNING
             THEN /\ Len(effects') = 1
                  /\ cmd \in MoveCommands
                  /\ effects'[1].h = player
                  /\ (in.key_a => cmd = "player_move_left")
                  /\ (~in.key_a /\ in.key_d => cmd = "player_move_right")
                  /\ (~in.key_a /\ ~in.key_d /\ in.axis < 0 => cmd = "player_move_left")
                  /\ (~in.key_a /\ ~in.key_d /\ in.axis > 0 => cmd = "player_move_right")
                  /\ (~in.key_a /\ ~in.key_d /\ in.axis = 0 => cmd = "player_stop")
                  /\ player_st'.dx = (CASE cmd = "player_move_left" -> -1
                                        [] cmd = "player_move_right" -> 1
                                        [] OTHER -> 0)
             ELSE effects' = <<>> /\ UNCHANGED player_st]_vars

\* both keys down, against a positive axis, in Running: move-left was issued
C9_Witness ==
    /\ phase = "live" /\ op = "game_input" /\ state = GAME_STATE_RUNNING
    /\ last_input = [key_a |-> TRUE, key_d |-> TRUE, axis |-> 1]
    /\ effects = <<Eff("player_move_left", player, NULL, "")>>

\* C10: pause suppresses simulation.  game_update in Pause or Quit changes
\* neither the player, the camera, the geometry nor the state; in Running it
\* advances the player against the current geometry and then centres the
\* camera on the advanced player.  It never changes the state.
C10_PauseSuppressesUpdate ==
    [][(FrameCall /\ op' = "game_update") =>
          /\ UNCHANGED <<state, player, platforms, camera, lt, released>>
          /\ ret' = 0
          /\ IF state = GAME_STATE_RUNNING
             THEN /\ effects' = <<Eff("update_player", player, platforms, ""),
                                  Eff("player_focus_camera", player, camera, "")>>
                  /\ \E dt \in 1..MaxDelta : player_st' = update_player(player_st, dt)
                  /\ camera_st' = player_st'.x
             ELSE /\ effects' = <<>>
                  /\ UNCHANGED <<player_st, camera_st>>]_vars

\* an update was made in Pause on a moving player the camera is not centred on
C10_Witness ==
    /\ phase = "live" /\ op = "game_update" /\ state = GAME_STATE_PAUSE
    /\ player_st.dx # 0
    /\ camera_st # player_st.x

\* C11: end-to-end lifecycle.  A run that is a successful create_game,
\* KeyDown(pause), KeyDown(pause), WindowClose, game_render goes through
\* Running, Pause, Running, Quit (is_game_over true), and its render call
\* returns 0 and draws nothing.
C11_Lifecycle ==
    /\ lifecycle \in 1..Len(LifecycleScript) => phase = "live"
    /\ lifecycle = 1 => state = GAME_STATE_RUNNING /\ ~game_over
    /\ lifecycle = 2 => state = GAME_STATE_PAUSE /\ ~game_over
    /\ lifecycle = 3 => state = GAME_STATE_RUNNING /\ ~game_over
    /\ lifecycle = 4 =>
          /\ state = GAME_STATE_QUIT
          /\ game_over
          /\ (op = "is_game_over" => ret = 1)
    /\ lifecycle = 5 =>
          /\ state = GAME_STATE_QUIT
          /\ (op = "game_render" => ret = 0 /\ effects = <<>>)

\* the run has made all five calls, the render call last
C11_Witness ==
    lifecycle = Len(LifecycleScript) /\ op = "game_render" /\ ret = 0

\* a call logged in eff reported an error
Failed(eff) == \E i \in 1..Len(eff) : eff[i].p = "failed"

\* C12: render failure.  When a drawing step of game_render (set colour,
\* clear, player draw, geometry draw) fails in Running or Pause, game_render
\* returns -1 with that step as its last draw call, SDL_RenderPresent is not
\* called, and the state, the handles and the ledger are unchanged.  With no
\* failing step the frame is presented once, last, and 0 is returned.
C12_RenderFailure ==
    [][(phase = "live" /\ op' = "game_render" /\ state # GAME_STATE_QUIT) =>
          /\ UNCHANGED <<state, player, platforms, camera, level_file_path,
                         path_buf, lt, released, acquired, player_st, camera_st>>
          /\ IF Failed(effects')
             THEN /\ ret' = -1
                  /\ "SDL_RenderPresent" \notin Names(effects')
                  /\ \A i \in 1..Len(effects') :
                        effects'[i].fn \in DrawCalls =>
                           (effects'[i].p = "failed" <=>
                               \A j \in (i + 1)..Len(effects') :
                                   effects'[j].fn \notin DrawCalls)
             ELSE /\ ret' = 0
                  /\ effects'[Len(effects')].fn = "SDL_RenderPresent"
                  /\ Cardinality(Calls(effects', "SDL_RenderPresent", NULL)) = 1]_vars

\* the geometry draw has just failed in Pause
C12_Witness ==
    /\ phase = "live" /\ op = "game_render" /\ ret = -1
    /\ state = GAME_STATE_PAUSE
    /\ Failed(effects)
    /\ effects[Len(effects)].fn = "render_platforms"

\* the event kinds of the transition table
WindowClose(e) == e.type = "SDL_QUIT"
KeyDown(e, sym) == e.type = "SDL_KEYDOWN" /\ e.sym = sym
ControllerButtonDown(e, button) == e.type = "SDL_JOYBUTTONDOWN" /\ e.button = button

\* the next state the transition table gives for state st, event e and, for a
\* reload, the handle the level loader returned
Table(st, e, loaded) ==
    IF st = GAME_STATE_RUNNING
    THEN IF WindowClose(e) THEN GAME_STATE_QUIT
         ELSE IF KeyDown(e, "SDLK_p") THEN GAME_STATE_PAUSE
         ELSE IF KeyDown(e, "SDLK_q") /\ loaded = NULL THEN GAME_STATE_QUIT
         ELSE GAME_STATE_RUNNING
    ELSE IF st = GAME_STATE_PAUSE
    THEN IF WindowClose(e) THEN GAME_STATE_QUIT
         ELSE IF KeyDown(e, "SDLK_p") THEN GAME_STATE_RUNNING
         ELSE GAME_STATE_PAUSE
    ELSE GAME_STATE_QUIT

\* C13: game_event implements exactly the transition table, and the state of
\* a live game changes in no other way.
C13_TransitionTable ==
    [][phase = "live" =>
          /\ state' \in {GAME_STATE_RUNNING, GAME_STATE_PAUSE, GAME_STATE_QUIT}
          /\ IF op' = "game_event"
             THEN state' = Table(state, last_event',
                                 IF ReloadCall THEN Loaded(effects') ELSE NULL)
             ELSE state' = state]_vars

\* KeyDown(pause) has just resumed a paused game (in Running the same key
\* gives Pause)
C13_Witness ==
    /\ phase = "live" /\ op = "game_event" /\ KeyDown(last_event, "SDLK_p")
    /\ state = GAME_STATE_RUNNING

\* C14: in Pause every event other than WindowClose and KeyDown(pause) is
\* ignored: the state stays Pause, no jump is signalled, the level loader is
\* not called, the geometry handle and the ledger are unchanged, and
\* game_event returns 0.
C14_PauseIgnoresOtherEvents ==
    [][(/\ phase = "live" /\ op' = "game_event"
        /\ state = GAME_STATE_PAUSE
        /\ ~WindowClose(last_event')
        /\ ~KeyDown(last_event', "SDLK_p")) =>
          /\ state' = GAME_STATE_PAUSE
          /\ ret' = 0
          /\ effects' = <<>>
          /\ UNCHANGED <<player, platforms, camera, level_file_path, path_buf,
                         lt, released, acquired, nextH, player_st, camera_st>>]_vars

\* KeyDown(reload) has just been handled in Pause (Running never turns a
\* reload key into Pause)
C14_Witness ==
    /\ phase = "live" /\ op = "game_event" /\ KeyDown(last_event, "SDLK_q")
    /\ state = GAME_STATE_PAUSE

\* the event asks for a jump
JumpEvent(e) == KeyDown(e, "SDLK_SPACE") \/ ControllerButtonDown(e, JUMP_BUTTON)

\* C15: a call signals a player jump exactly when it is game_event in Running
\* with KeyDown(jump) or ControllerButtonDown(primary); it then signals one
\* jump, to the game's player, and the state stays Running.  Other controller
\* buttons signal nothing.
C15_JumpOnlyInRunning ==
    [][phase = "live" =>
          LET jumps == {i \in 1..Len(effects') : effects'[i].fn = "player_jump"}
          IN IF op' = "game_event" /\ state = GAME_STATE_RUNNING
                /\ JumpEvent(last_event')
             THEN /\ Cardinality(jumps) = 1
                  /\ effects' = <<Eff("player_jump", player, NULL, "")>>
                  /\ player_st' = player_jump(player_st)
                  /\ state' = GAME_STATE_RUNNING
             ELSE /\ jumps = {}
                  /\ (op' = "game_event" /\ last_event'.type = "SDL_JOYBUTTONDOWN"
                        => effects' = <<>> /\ UNCHANGED player_st)]_vars

\* the primary controller button has just made the player jump
C15_Witness ==
    /\ phase = "live" /\ op = "game_event"
    /\ ControllerButtonDown(last_event, JUMP_BUTTON)
    /\ effects = <<Eff("player_jump", player, NULL, "")>>
    /\ player_st.jump

\* C16: the state changes only inside game_event.  game_input, game_update,
\* game_render and is_game_over leave it as it is, whatever they are given
\* and whatever they return.
C16_StateChangesOnlyInEvent ==
    [][(phase = "live"
        /\ op' \in {"game_input", "game_update", "game_render", "is_game_over"})
          => state' = state]_vars

\* a render call has just failed and the game is still running
C16_Witness ==
    /\ phase = "live" /\ op = "game_render" /\ ret = -1
    /\ state = GAME_STATE_RUNNING

\* C17: hot reload disturbs nothing but the geometry slot.  A reload, whether
\* the load succeeds or fails, leaves the player, camera and level-path
\* handles and the stored path unchanged, releases none of them, keeps the
\* number and the order of the ledger frames (only the resource of the
\* geometry frame may change), and loads from the path given to create_game.
C17_ReloadTouchesOnlyGeometry ==
    [][ReloadCall =>
          LET loads == {i \in 1..Len(effects') :
                           effects'[i].fn = "load_platforms_from_file"}
          IN /\ UNCHANGED <<player, camera, level_file_path, path_buf, path_arg,
                            player_st, camera_st>>
             /\ Len(lt') = Len(lt)
             /\ \A i \in 1..Len(lt) :
                   /\ lt'[i].dtor = lt[i].dtor
                   /\ (lt'[i].res # lt[i].res => lt[i].res = platforms)
             /\ \A i \in 1..Len(released') :
                   i > Len(released) => released'[i] = Frame(platforms, "destroy_platforms")
             /\ SubSeq(released', 1, Len(released)) = released
             /\ {player, camera, level_file_path, game} \cap
                   {released'[i].res : i \in 1..Len(released')} = {}
             /\ Cardinality(loads) = 1
             /\ \A i \in loads : effects'[i].p = path_arg /\ path_arg = path_buf]_vars

\* a second reload, of the second level file, has just been handled
C17_Witness ==
    /\ phase = "live" /\ op = "game_event" /\ KeyDown(last_event, "SDLK_q")
    /\ path_arg = "level2.txt"
    /\ Len(acquired) = Len(Registrations) + 2
    /\ Len(released) = 2

\* C18: every geometry handle game_update passes to update_player and
\* game_render passes to render_platforms is non-null and live: it is the
\* handle in the geometry frame of the ledger and has not been released.
C18_GeometryInUseIsLive ==
    phase = "live" =>
        \A i \in 1..Len(effects) :
            LET h == IF effects[i].fn = "update_player" THEN effects[i].g
                     ELSE effects[i].h
            IN effects[i].fn \in {"update_player", "render_platforms"} =>
                  /\ h # NULL
                  /\ h = platforms
                  /\ Frame(h, "destroy_platforms") \in Range(lt)
                  /\ h \notin {released[j].res : j \in 1..Len(released)}

\* the geometry of a successful reload has just been drawn; the one it
\* replaced has been released
C18_Witness ==
    /\ phase = "live" /\ op = "game_render" /\ ret = 0
    /\ released # <<>>
    /\ \E i \in 1..Len(effects) :
          effects[i].fn = "render_platforms" /\ effects[i].h = platforms

\* the call made last reported a failure to its caller
CallFailed ==
    \/ phase = "failed"
    \/ phase = "live" /\ op \in {"game_event", "game_render"} /\ ret = -1

\* positions in eff of the records to the error channel (throw_error) and of
\* the reads of it (print_current_error_msg)
Records(eff) == {i \in 1..Len(eff) : eff[i].fn = "throw_error"}
Reads(eff) == {i \in 1..Len(eff) : eff[i].fn = "print_current_error_msg"}

\* C19 (as stated): on every failure path of create_game, game_event and
\* game_render the core records the failure to the error channel before it
\* returns the failure, and the core never reads the error channel.
C19_CoreRecordsEveryFailure ==
    /\ CallFailed => Records(effects) # {}
    /\ Reads(effects) = {}

\* the step of create_game that failed: the last producer it called
\* ("create_lt" if it called none)
FailedStep ==
    IF ProducerCalls(effects) = <<>> THEN "create_lt"
    ELSE Registrations[Len(ProducerCalls(effects))]

\* the drawing step of game_render that failed
FailedDraw == effects[CHOOSE i \in 1..Len(effects) : effects[i].p = "failed"].fn

\* C19 (amended): the core records a failure itself exactly where it detects
\* it from a libc or SDL call (the allocation of the game record or of the
\* level-path buffer in create_game, SDL_SetRenderDrawColor or SDL_RenderClear
\* in game_render), once, before it releases anything and returns.  Failures
\* reported by create_lt, create_player, load_platforms_from_file,
\* create_camera, render_player and render_platforms are returned with no
\* record made by the core.  A failed reload is returned after the core has
\* read the error channel (print_current_error_msg), its only read.
C19_CoreRecordsOwnDetections ==
    /\ ~CallFailed => Records(effects) = {} /\ Reads(effects) = {}
    /\ phase = "failed" =>
          /\ Reads(effects) = {}
          /\ (Records(effects) # {} <=> FailedStep \in {"game", "level_file_path"})
          /\ Cardinality(Records(effects)) <= 1
          /\ \A i \in Records(effects) :
                /\ effects[i].p = "ERROR_TYPE_LIBC"
                /\ \A j \in 1..Len(effects) :
                      effects[j].fn \in ReleaseCalls => i < j
    /\ (phase = "live" /\ op = "game_render" /\ ret = -1) =>
          /\ Reads(effects) = {}
          /\ (Records(effects) # {} <=>
                 FailedDraw \in {"SDL_SetRenderDrawColor", "SDL_RenderClear"})
          /\ (Records(effects) # {} =>
                 /\ Records(effects) = {Len(effects)}
                 /\ effects[Len(effects)].p = "ERROR_TYPE_SDL2")
    /\ (phase = "live" /\ op = "game_event" /\ ret = -1) =>
          /\ Records(effects) = {}
          /\ Reads(effects) = {Len(effects)}

\* create_game has failed at the level-path buffer: the error was recorded,
\* then the four registered resources were released
C19_Witness ==
    /\ phase = "failed"
    /\ FailedStep = "level_file_path"
    /\ Records(effects) # {}
    /\ Len(released) = 4

====
